---- MODULE Spec2Model ----
(***************************************************************************)
(* Model of the zerreta backend (src/backend/server.js): the student       *)
(* progression record (per-subject stage/level), the per-topic progress    *)
(* record and the test-attempt log, as read and written by the request     *)
(* handlers.                                                               *)
(*                                                                         *)
(* Every handler that reads a Student document and saves it later is two   *)
(* steps, split at the await between the read and the write, so that two   *)
(* requests interleave as they do on the Node event loop.  The store is a  *)
(* document store that keeps what a handler saves; a save or an insert may *)
(* be refused by the store (validation or availability), and the handler's *)
(* catch blocks then run.  The student of a request is the Student         *)
(* document that the lookup of its handler resolves the token to, if any.  *)
(***************************************************************************)
EXTENDS Integers, Sequences, FiniteSets, TLC

\* ---------------------------------------------------------------- bounds
MaxReqs == 2      \* requests started in one behaviour
MaxNum == 12      \* largest integer with a decimal numeral in the string universe
MaxQuestions == 3 \* longest answer list of a submission
MaxBank == 1      \* documents per question collection
MaxAdminReqs == 3 \* admin and read requests started in one behaviour

\* ------------------------------------------------------ program constants
PassMark == 70        \* score >= 70 passes / completes a topic
MaxLevel == 4         \* current handlers roll over when level exceeds 4
LegacyRollover == 5   \* legacy handler rolls over when level >= 5
PointsPerLevel == 25   \* N.POINTS per level cleared

\* ------------------------------------------------------------- JS values
Undefined == "undefined_"       \* the JS value undefined (a missing body field)
NaN == 0 - 1000                 \* the JS number NaN (no modelled integer reaches it)

Digit == <<"0", "1", "2", "3", "4", "5", "6", "7", "8", "9">>

RECURSIVE Numeral(_)
Numeral(n) == IF n < 10 THEN Digit[n + 1] ELSE Numeral(n \div 10) \o Digit[(n % 10) + 1]

\* Number.prototype.toString
NumToString(n) == IF n = NaN THEN "NaN" ELSE Numeral(n)

\* parseInt on a string: the integer of a decimal numeral, NaN otherwise
Numerals == {Numeral(n) : n \in 0..MaxNum}
Parsed == [s \in Numerals |-> CHOOSE n \in 0..MaxNum : Numeral(n) = s]
ParseInt(s) == IF s \in Numerals THEN Parsed[s] ELSE NaN

\* x || 1 on a number: NaN and 0 are falsy
OrOne(n) == IF n = NaN \/ n = 0 THEN 1 ELSE n

\* a + b and a > b, a >= b on JS numbers
Add(a, b) == IF a = NaN \/ b = NaN THEN NaN ELSE a + b
Gt(a, b) == a # NaN /\ b # NaN /\ a > b
Ge(a, b) == a # NaN /\ b # NaN /\ a >= b

\* truthiness of a body field that is a string or undefined
Truthy(v) == v # Undefined /\ v # ""

\* String.prototype.toLowerCase on the subject names
ToLowerCase(s) ==
    CASE s = "Physics" -> "physics"
      [] s = "Chemistry" -> "chemistry"
      [] OTHER -> s

\* s.charAt(0).toUpperCase() + s.slice(1)
Capitalize(s) ==
    CASE s = "physics" -> "Physics"
      [] s = "chemistry" -> "Chemistry"
      [] OTHER -> s

\* ------------------------------------------------------------- universes
Students == {"s1", "s2"}
Callers == {"s1"}      \* the students whose requests are followed
SubjectInputs == {"physics", "Chemistry"}
Keys == {"physics", "Physics", "chemistry", "Chemistry"}
Topics == {"1"}
TopicKeys == SubjectInputs \X Topics

Entry(stage, level) == [stage |-> stage, level |-> level]
EmptyMap == [k \in {} |-> 0]

\* subjects given by POST /admin/students when the body has none
DefaultSubjects == [k \in {"physics", "chemistry"} |-> Entry("1", "1")]

Slots == {1, 2}

\* ------------------------------------------------------------------ state
VARIABLES
    students,      \* the students collection: id -> [subjects, topicProgress]
    testHistory,   \* the TestHistory collection, in insertion order
    req,           \* the requests in flight: slot -> handler position and locals
    last,          \* the request that completed last, with what it read and wrote
    muts,          \* the level mutations applied so far: [op, who, key, testId]
    submitted,     \* per (student, subject, topic): scores of the applied topic updates
    nreq,          \* requests started
    grade,         \* one submission followed from its body to the history read
    adm            \* the admin side: question banks, accounts, tokens, reads

vars == <<students, testHistory, req, last, muts, submitted, nreq, grade, adm>>

NoDoc == [found |-> FALSE, subjects |-> EmptyMap, topicProgress |-> EmptyMap]

\* Student.findOne / findById for the caller's identity
Lookup(db, who) ==
    IF who \in DOMAIN db
    THEN [found |-> TRUE, subjects |-> db[who].subjects,
          topicProgress |-> db[who].topicProgress]
    ELSE NoDoc

IdleReq ==
    [pc |-> "idle", op |-> "none", who |-> "none", subject |-> Undefined,
     testId |-> 0, passed |-> FALSE, score |-> 0, cstage |-> Undefined,
     clevel |-> Undefined, topic |-> Undefined, completed |-> FALSE, doc |-> NoDoc]

NoEntry == [has |-> FALSE, stage |-> "", level |-> ""]
ReadEntry(subjects, key) ==
    IF key \in DOMAIN subjects
    THEN [has |-> TRUE, stage |-> subjects[key].stage, level |-> subjects[key].level]
    ELSE NoEntry

\* a topic that has no record yet
NoTopicData == [progress |-> 0, completed |-> FALSE, attemptsCount |-> 0]

NoLast ==
    [op |-> "none", who |-> "none", subject |-> Undefined, key |-> "none",
     passed |-> FALSE, status |-> 0, wrote |-> FALSE,
     read |-> NoEntry, pre |-> NoEntry, post |-> NoEntry,
     alts |-> {}, hadPass |-> FALSE, found |-> FALSE, fields |-> {},
     score |-> 0, tpre |-> NoTopicData, tpost |-> NoTopicData,
     npre |-> 0, npost |-> 0]

\* ---------------------------------------- bodies of a test submission
\* JSON values of a body field: a number, a non-numeric string, or absent
Num(n) == [t |-> "number", v |-> n]
NotANumber == [t |-> "string", v |-> 0]
Absent == [t |-> "undefined", v |-> 0]

\* one answered question of a body: isCorrect is true, false or absent
IsCorrectInputs == {"true", "false", Undefined}
QuestionTopics == {"1", "2"}
QuestionInputs ==
    [text : {"Q"}, isCorrect : IsCorrectInputs, topicNumber : QuestionTopics]

RECURSIVE SeqsUpTo(_, _)
SeqsUpTo(S, n) ==
    IF n = 0 THEN {<<>>}
    ELSE LET shorter == SeqsUpTo(S, n - 1)
         IN  shorter \cup {Append(q, x) : q \in shorter, x \in S}

QuestionLists == SeqsUpTo(QuestionInputs, MaxQuestions)

\* a body with every required field, and the bodies that lack one; a client
\* may add a scoringMode field, which no handler reads
ScoringModes == {"percentage", "negative-marking"}
GoodBodies ==
    [subject : {"physics"}, stage : {"1"}, hasQuestions : {TRUE},
     questions : QuestionLists, score : {Num(0), Num(85)},
     totalTime : {Num(10)}, passedLevel : BOOLEAN, scoringMode : ScoringModes]

Without(b) ==
    {[b EXCEPT !.subject = Undefined], [b EXCEPT !.stage = Undefined],
     [b EXCEPT !.score = Absent], [b EXCEPT !.score = NotANumber],
     [b EXCEPT !.totalTime = Absent],
     [b EXCEPT !.hasQuestions = FALSE, !.questions = <<>>]}

GradeBodies ==
    GoodBodies \cup UNION {Without(b) : b \in {g \in GoodBodies : g.passedLevel /\ g.score = Num(85)}}

NoGrade ==
    [pc |-> "none", op |-> "none", body |-> CHOOSE b \in GoodBodies : TRUE,
     status |-> 0, log |-> <<>>, view |-> <<>>, bank |-> "Q",
     reachedStudent |-> FALSE]

\* the admin side before any admin request is followed
NoServed == [has |-> FALSE, index |-> 0, letter |-> Undefined]
NoAnswer == [has |-> FALSE, selectedOption |-> "", correctOption |-> Undefined,
             isCorrect |-> FALSE, index |-> 0]
\* bcrypt.hash(p, 10) and bcrypt.compare(p, h)
Hash(p) == <<"bcrypt", p>>
Compare(p, h) == h = Hash(p)

\* a create request in flight, and the response sent last with what the
\* request found when it answered
IdleCreate ==
    [pc |-> "idle", studentId |-> "", username |-> "", password |-> "", doc |-> 0]
NoResp ==
    [op |-> "none", token |-> "none", status |-> 0, password |-> Undefined,
     saved |-> FALSE, kept |-> FALSE, userOk |-> FALSE, hadUser |-> FALSE,
     differs |-> FALSE, loginOk |-> FALSE, credKept |-> FALSE, returned |-> {}]

\* the accounts created at start-up (createAdminUser, createTestStudent); no
\* Student exists yet
NoAdmin ==
    [questions |-> <<>>, grammarQuestions |-> <<>>,
     served |-> NoServed, answer |-> NoAnswer,
     docs |-> EmptyMap,
     users |-> ("admin" :> [password |-> Hash("admin123"), role |-> "admin"])
               @@ ("student" :> [password |-> Hash("student123"), role |-> "student"]),
     attempts |-> <<>>,
     creq |-> [r \in Slots |-> IdleCreate],
     resp |-> NoResp, n |-> 0]

\* the states the database can be in when the server starts serving: s1 was
\* created by the admin with a physics entry only and has practised physics
\* topic 1 once with a score of 85; s2 was created with the default subjects
SeedLevels == {"2", "4"}
SeedTopic == <<"physics", "1">>

Init ==
    /\ \E l \in SeedLevels :
         students = [s \in Students |->
            IF s = "s1"
            THEN [subjects |-> [k \in {"physics"} |-> Entry("1", l)],
                  topicProgress |-> [k \in {SeedTopic} |->
                        [progress |-> 85, completed |-> TRUE, attemptsCount |-> 1]]]
            ELSE [subjects |-> DefaultSubjects, topicProgress |-> EmptyMap]]
    /\ testHistory = <<>>
    /\ req = [r \in Slots |-> IdleReq]
    /\ last = NoLast
    /\ muts = <<>>
    /\ submitted = [p \in Callers \X TopicKeys |->
                        IF p = <<"s1", SeedTopic>> THEN {85} ELSE {}]
    /\ nreq = 0
    /\ grade = NoGrade
    /\ adm = NoAdmin

\* a new request takes the first idle slot
FirstIdle(r) ==
    /\ req[r].pc = "idle"
    /\ \A q \in Slots : req[q].pc = "idle" => r <= q

CanStart(r) == nreq < MaxReqs /\ FirstIdle(r)

\* a passing attempt of `who` for the subject of `key` is in the log
HasPassingAttempt(log, who, key) ==
    \E i \in 1..Len(log) :
        /\ log[i].studentId = who
        /\ log[i].passedLevel
        /\ ToLowerCase(log[i].subject) = ToLowerCase(key)

\* the entries of `who` for `key` as persisted
Persisted(db, who, key) ==
    IF who \in DOMAIN db THEN ReadEntry(db[who].subjects, key) ELSE NoEntry

\* (mutant) the save replaces the whole subjects map by the entries written
SetEntriesReplace(db, who, kvs) ==
    [db EXCEPT ![who].subjects = kvs]

\* write the entries `kvs` (key -> entry) into the subjects of `who`
SetEntries(db, who, kvs) ==
    [db EXCEPT ![who].subjects = kvs @@ @]

\* client-supplied progression values: (stage, level) / (newStage, newLevel) /
\* (currentStage, currentLevel) of a request body
ClientEntries == {Entry("1", "1"), Entry("1", "7"), Entry("2", "abc")}

\* --------------------------------------------------- progression rules
\* (mutant) a missing subject starts below the first level
InitEntryLevelZero(e) == IF e.has THEN e ELSE [has |-> TRUE, stage |-> "1", level |-> "0"]

\* `if (!student.subjects[key]) student.subjects[key] = { stage: '1', level: '1' }`
InitEntry(e) == IF e.has THEN e ELSE [has |-> TRUE, stage |-> "1", level |-> "1"]

\* (mutant) the rollover of the legacy handler, `currentLevel >= 5`, in the current one
TestHistoryProgressRollsLate(e0, client) ==
    LET e == IF e0.has THEN e0 ELSE [has |-> TRUE, stage |-> "1", level |-> "1"]
        currentLevel == OrOne(ParseInt(e.level))
        currentStage == OrOne(ParseInt(e.stage))
    IN  IF currentLevel >= LegacyRollover
        THEN Entry(NumToString(currentStage + 1), NumToString(1))
        ELSE Entry(NumToString(currentStage), NumToString(currentLevel + 1))

\* POST /student/test-history: the entry saved for a pass, from the entry read
\* (the body's stage and level go to the attempt record only)
TestHistoryProgress(e0, client) ==
    LET e == InitEntry(e0)
        currentLevel == OrOne(ParseInt(e.level))
        currentStage == OrOne(ParseInt(e.stage))
        incremented == currentLevel + 1
    IN  IF incremented > MaxLevel
        THEN Entry(NumToString(currentStage + 1), NumToString(1))
        ELSE Entry(NumToString(currentStage), NumToString(incremented))

\* POST /student/test-completion-level-update: the entry $set for both keys
\* (currentLevel / currentStage of the body are read and not used)
LevelUpdateProgress(e0, client) ==
    LET e == InitEntry(e0)
        dbLevel == IF Truthy(e.level) THEN ParseInt(e.level) ELSE 1
        dbStage == IF Truthy(e.stage) THEN ParseInt(e.stage) ELSE 1
        newLevel == Add(dbLevel, 1)
    IN  IF Gt(newLevel, MaxLevel)
        THEN Entry(NumToString(Add(dbStage, 1)), NumToString(1))
        ELSE Entry(NumToString(dbStage), NumToString(newLevel))

\* POST /student/update-level: the entry saved is the body's newLevel / newStage
UpdateLevelProgress(e0, client) == Entry(client.stage, client.level)

\* legacy POST /student/complete-test: the gate on the body's stage and level
LegacyGate(e, client) ==
    LET currentLevel == ParseInt(e.level)
        currentStage == ParseInt(e.stage)
    IN  \/ (client.stage = e.stage /\ client.level = e.level)
        \/ Gt(ParseInt(client.stage), currentStage)
        \/ /\ ParseInt(client.stage) # NaN
           /\ ParseInt(client.stage) = currentStage
           /\ Gt(ParseInt(client.level), currentLevel)

\* legacy POST /student/complete-test: the entry saved when the gate is open
LegacyProgress(e0, client) ==
    LET e == InitEntry(e0)
        currentLevel == ParseInt(e.level)
        currentStage == ParseInt(e.stage)
    IN  IF Ge(currentLevel, LegacyRollover)
        THEN Entry(NumToString(Add(currentStage, 1)), "1")
        ELSE Entry(e.stage, NumToString(Add(currentLevel, 1)))

\* ------------------------------------------------------ request plumbing
NewReq(op, who, subject, testId, passed, score, client) ==
    [IdleReq EXCEPT !.op = op, !.who = who, !.subject = subject, !.testId = testId,
                    !.passed = passed, !.score = score,
                    !.cstage = client.stage, !.clevel = client.level]

ClientOf(q) == Entry(q.cstage, q.clevel)
NoClient == Entry(Undefined, Undefined)

\* the fields of the JSON body of a response
ResponseFields(op, status) ==
    CASE op = "testHistory" /\ status = 201 ->
            {"_id", "studentId", "subject", "stage", "level", "score", "questions",
             "totalTime", "passedLevel", "date"}
      [] op = "completeTest" /\ status = 201 -> {"message", "testId", "results"}
      [] op = "completeTestLegacy" /\ status = 201 -> {"message", "testId"}
      [] op = "levelUpdate" /\ status = 200 ->
            {"success", "message", "subject", "oldLevel", "oldStage", "newLevel",
             "newStage"}
      [] op = "levelUpdate" /\ status = 500 -> {"success", "message", "error"}
      [] op = "updateLevel" /\ status = 200 -> {"message", "subject", "level", "stage"}
      [] op = "updateTopicProgress" /\ status = 200 -> {"message", "topicProgress"}
      [] status = 500 -> {"message", "error"}
      [] OTHER -> {}

\* POST /student/test-history, passed and no Student found: the handler
\* returns and sends no response (status 0)
NoResponse(q) ==
    [NoLast EXCEPT !.op = q.op, !.who = q.who, !.subject = q.subject,
                   !.key = ToLowerCase(q.subject), !.passed = q.passed]

Max(a, b) == IF a >= b THEN a ELSE b

\* GET /student/leaderboard: `parseInt(subjects.<k>?.level || '1') - 1`, then
\* Math.max(0, .), which is NaN for NaN
LevelsCleared(subjects, k) ==
    LET e == ReadEntry(subjects, k)
        level == ParseInt(IF e.has /\ Truthy(e.level) THEN e.level ELSE "1")
    IN  IF level = NaN THEN NaN ELSE Max(0, level - 1)

\* N.POINTS of a student: 25 per level cleared in physics, chemistry, biology
NPoints(subjects) ==
    LET total == Add(Add(LevelsCleared(subjects, "physics"),
                         LevelsCleared(subjects, "chemistry")),
                     LevelsCleared(subjects, "biology"))
    IN  IF total = NaN THEN NaN ELSE total * PointsPerLevel

\* N.POINTS of `who` as the leaderboard would show them from `db`
NPointsOf(db, who) == IF who \in DOMAIN db THEN NPoints(db[who].subjects) ELSE 0

\* the record of a request that reached its write of `new` for the subject `key`
Wrote(q, key, status, wrote, new, alts) ==
    [NoLast EXCEPT !.found = TRUE, !.fields = ResponseFields(q.op, status),
                   !.op = q.op, !.who = q.who, !.subject = q.subject, !.key = key,
                   !.passed = q.passed, !.status = status, !.wrote = wrote,
                   !.read = ReadEntry(q.doc.subjects, key),
                   !.pre = Persisted(students, q.who, key),
                   !.post = Persisted(students', q.who, key),
                   !.alts = alts,
                   !.hadPass = HasPassingAttempt(testHistory, q.who, key),
                   !.npre = NPointsOf(students, q.who),
                   !.npost = NPointsOf(students', q.who)]

AttemptRecord(q, passedLevel) ==
    [studentId |-> q.who, subject |-> q.subject, passedLevel |-> passedLevel,
     score |-> q.score]

\* ------------------------------------------- POST /student/test-history
\* bodies of POST /student/test-history: (passedLevel, score) as the client sends them
TestHistoryResults == {<<TRUE, 85>>, <<FALSE, 40>>}

\* (mutant) the level update runs whatever the result
UpdatesLevelAlways(passedLevel) == TRUE

\* `if (passedLevel)`: the request goes on to the level update
UpdatesLevel(passedLevel) == passedLevel

\* the level mutation applied by request `q` to the subject of `key`
Mutation(q, key) ==
    [op |-> q.op, who |-> q.who, key |-> ToLowerCase(key), testId |-> q.testId]

TestHistoryBegin(r) ==
    /\ UNCHANGED <<grade, adm>>
    /\ CanStart(r)
    /\ nreq' = nreq + 1
    /\ UNCHANGED <<students, muts, submitted>>
    /\ \E who \in Callers :
        \/ \* a required field is missing (400), or testResult.save() throws (500)
           UNCHANGED <<req, testHistory, last>>
        \/ \E subject \in SubjectInputs, res \in TestHistoryResults :
            LET passed == res[1]
                q == NewReq("testHistory", who, subject, Len(testHistory) + 1,
                            passed, res[2], NoClient)
                doc == Lookup(students, who)
            IN  /\ testHistory' = Append(testHistory, AttemptRecord(q, passed))
                \* not passed: 201; passed and no student: `return`, no response
                /\ req' = [req EXCEPT ![r] = IF UpdatesLevel(passed) /\ doc.found
                                             THEN [q EXCEPT !.pc = "loaded", !.doc = doc]
                                             ELSE IdleReq]
                /\ last' = IF UpdatesLevel(passed) /\ ~doc.found
                           THEN NoResponse(q)
                           ELSE last

TestHistoryWrite(r) ==
    /\ UNCHANGED <<grade, adm>>
    /\ req[r].pc = "loaded"
    /\ req[r].op = "testHistory"
    /\ \E ok \in BOOLEAN :
        LET q == req[r]
            subjectKey == ToLowerCase(q.subject)
            new == TestHistoryProgress(ReadEntry(q.doc.subjects, subjectKey), ClientOf(q))
            \* student.save() throws when the store refuses it or the document is gone
            wrote == ok /\ q.who \in DOMAIN students
            alts == {TestHistoryProgress(ReadEntry(q.doc.subjects, subjectKey), c) :
                        c \in ClientEntries}
        IN  /\ students' = IF wrote
                           THEN SetEntries(students, q.who, subjectKey :> new)
                           ELSE students
            /\ muts' = IF wrote THEN Append(muts, Mutation(q, q.subject)) ELSE muts
            /\ last' = Wrote(q, subjectKey, 201, wrote, new, alts)
    /\ req' = [req EXCEPT ![r] = IdleReq]
    /\ UNCHANGED <<testHistory, nreq, submitted>>

\* ------------------------- POST /student/test-completion-level-update
LevelUpdateBegin(r) ==
    /\ UNCHANGED <<grade, adm>>
    /\ CanStart(r)
    /\ nreq' = nreq + 1
    /\ UNCHANGED <<students, testHistory, muts, last, submitted>>
    /\ \E who \in Callers :
        \/ \* `if (!subject)`: 400
           UNCHANGED req
        \/ \E subject \in SubjectInputs, testId \in 0..Len(testHistory) :
            LET q == NewReq("levelUpdate", who, subject, testId, TRUE, 0, NoClient)
                doc == Lookup(students, who)
            IN  \* no student by id, by username or by the raw query: 404
                req' = [req EXCEPT ![r] = IF doc.found
                                          THEN [q EXCEPT !.pc = "loaded", !.doc = doc]
                                          ELSE IdleReq]

LevelUpdateWrite(r) ==
    /\ UNCHANGED <<grade, adm>>
    /\ req[r].pc = "loaded"
    /\ req[r].op = "levelUpdate"
    /\ \E ok \in BOOLEAN :
        LET q == req[r]
            subjectKey == ToLowerCase(q.subject)
            capitalizedKey == Capitalize(subjectKey)
            new == LevelUpdateProgress(ReadEntry(q.doc.subjects, subjectKey), ClientOf(q))
            \* updateOne matches no document once the student is deleted, and the
            \* fallback save() of the deleted document throws
            wrote == ok /\ q.who \in DOMAIN students
            alts == {LevelUpdateProgress(ReadEntry(q.doc.subjects, subjectKey), c) :
                        c \in ClientEntries}
        IN  /\ students' = IF wrote
                           THEN SetEntries(students, q.who,
                                           (subjectKey :> new) @@ (capitalizedKey :> new))
                           ELSE students
            /\ muts' = IF wrote THEN Append(muts, Mutation(q, q.subject)) ELSE muts
            /\ last' = Wrote(q, subjectKey, IF wrote THEN 200 ELSE 500, wrote, new, alts)
    /\ req' = [req EXCEPT ![r] = IdleReq]
    /\ UNCHANGED <<testHistory, nreq, submitted>>

\* ------------------------------------------ POST /student/update-level
UpdateLevelBegin(r) ==
    /\ UNCHANGED <<grade, adm>>
    /\ CanStart(r)
    /\ nreq' = nreq + 1
    /\ UNCHANGED <<students, testHistory, muts, last, submitted>>
    /\ \E who \in Callers :
        \/ \* `if (!subject || !newLevel || !newStage)`: 400
           UNCHANGED req
        \/ \E subject \in SubjectInputs, client \in ClientEntries :
            LET q == NewReq("updateLevel", who, subject, 0, TRUE, 0, client)
                doc == Lookup(students, who)
            IN  \* no student by username, by id or by email: 404
                req' = [req EXCEPT ![r] = IF doc.found
                                          THEN [q EXCEPT !.pc = "loaded", !.doc = doc]
                                          ELSE IdleReq]

UpdateLevelWrite(r) ==
    /\ UNCHANGED <<grade, adm>>
    /\ req[r].pc = "loaded"
    /\ req[r].op = "updateLevel"
    /\ \E ok \in BOOLEAN :
        LET q == req[r]
            normalizedSubject == ToLowerCase(q.subject)
            capitalizedSubject == Capitalize(normalizedSubject)
            new == UpdateLevelProgress(ReadEntry(q.doc.subjects, normalizedSubject),
                                       ClientOf(q))
            wrote == ok /\ q.who \in DOMAIN students
            alts == {UpdateLevelProgress(ReadEntry(q.doc.subjects, normalizedSubject), c) :
                        c \in ClientEntries}
        IN  /\ students' = IF wrote
                           THEN SetEntries(students, q.who,
                                   (normalizedSubject :> new) @@ (capitalizedSubject :> new))
                           ELSE students
            /\ muts' = IF wrote THEN Append(muts, Mutation(q, q.subject)) ELSE muts
            /\ last' = Wrote(q, normalizedSubject, IF wrote THEN 200 ELSE 500,
                             wrote, new, alts)
    /\ req' = [req EXCEPT ![r] = IdleReq]
    /\ UNCHANGED <<testHistory, nreq, submitted>>

\* ------------------------------- legacy POST /student/complete-test
\* `passedLevel || score >= 70`
PassedOrScore(passedLevel, score) == passedLevel \/ score >= PassMark

\* bodies of the legacy endpoint: (passedLevel, score)
LegacyResults == {<<FALSE, 40>>, <<FALSE, 85>>}

CompleteTestLegacyBegin(r) ==
    /\ UNCHANGED <<grade, adm>>
    /\ CanStart(r)
    /\ nreq' = nreq + 1
    /\ UNCHANGED <<students, last, muts, submitted>>
    /\ \E who \in Callers :
        \/ \* testResult.save() throws: 500
           UNCHANGED <<req, testHistory>>
        \/ \E subject \in SubjectInputs, res \in LegacyResults, client \in ClientEntries :
            LET passed == PassedOrScore(res[1], res[2])
                q == NewReq("completeTestLegacy", who, subject, Len(testHistory) + 1,
                            res[1], res[2], client)
                doc == Lookup(students, who)
            IN  \* the body's stage and level are used by a passing request only
                /\ passed \/ client = CHOOSE c \in ClientEntries : TRUE
                /\ testHistory' = Append(testHistory, AttemptRecord(q, passed))
                \* a missing student is a TypeError in the inner try: 201 all the same
                /\ req' = [req EXCEPT ![r] = IF passed /\ doc.found
                                             THEN [q EXCEPT !.pc = "loaded", !.doc = doc]
                                             ELSE IdleReq]

CompleteTestLegacyWrite(r) ==
    /\ UNCHANGED <<grade, adm>>
    /\ req[r].pc = "loaded"
    /\ req[r].op = "completeTestLegacy"
    /\ \E ok \in BOOLEAN :
        LET q == req[r]
            e0 == ReadEntry(q.doc.subjects, q.subject)
            open == LegacyGate(InitEntry(e0), ClientOf(q))
            new == LegacyProgress(e0, ClientOf(q))
            wrote == open /\ ok /\ q.who \in DOMAIN students
            alts == {IF LegacyGate(InitEntry(e0), c)
                     THEN LegacyProgress(e0, c)
                     ELSE Entry(InitEntry(e0).stage, InitEntry(e0).level) :
                        c \in ClientEntries}
        IN  /\ students' = IF wrote
                           THEN SetEntries(students, q.who, q.subject :> new)
                           ELSE students
            /\ muts' = IF wrote THEN Append(muts, Mutation(q, q.subject)) ELSE muts
            /\ last' = Wrote(q, q.subject, 201, wrote, new, alts)
    /\ req' = [req EXCEPT ![r] = IdleReq]
    /\ UNCHANGED <<testHistory, nreq, submitted>>

\* ---------------------------------------------------- topic progress
\* x || 0 on a number
OrZero(n) == IF n = NaN \/ n = 0 THEN 0 ELSE n


\* `student.topicProgress[subject][topicNumber] || { progress: 0, ... }`
CurrentTopicData(topicProgress, k) ==
    IF k \in DOMAIN topicProgress
    THEN topicProgress[k]
    ELSE NoTopicData

\* the topic record of `who` for `k` as persisted
PersistedTopic(db, who, k) ==
    IF who \in DOMAIN db THEN CurrentTopicData(db[who].topicProgress, k) ELSE NoTopicData

\* (mutant) the attempt is not counted
CompleteTestTopicKeepsCount(cur, score) ==
    [progress |-> Max(cur.progress, OrZero(score)),
     completed |-> (score >= PassMark \/ cur.completed),
     attemptsCount |-> OrOne(cur.attemptsCount)]

\* POST /student/complete-test, practice mode: the topic record saved
CompleteTestTopic(cur, score) ==
    [progress |-> Max(cur.progress, OrZero(score)),
     completed |-> (score >= PassMark \/ cur.completed),
     attemptsCount |-> OrZero(cur.attemptsCount) + 1]

\* (mutant) the latest progress overwrites the best one
UpdateTopicProgressLatest(cur, progress, completed) ==
    [progress |-> OrZero(progress),
     completed |-> (completed \/ cur.completed),
     attemptsCount |-> OrZero(cur.attemptsCount) + 1]

\* POST /student/update-topic-progress: the topic record saved
UpdateTopicProgressTopic(cur, progress, completed) ==
    [progress |-> Max(cur.progress, OrZero(progress)),
     completed |-> (completed \/ cur.completed),
     attemptsCount |-> OrZero(cur.attemptsCount) + 1]

\* (mutant) the save writes the document with the topic record alone
SetTopicDropsSubjects(db, who, k, rec) ==
    [db EXCEPT ![who] = [subjects |-> EmptyMap,
                         topicProgress |-> (k :> rec) @@ @.topicProgress]]

SetTopic(db, who, k, rec) ==
    [db EXCEPT ![who].topicProgress = (k :> rec) @@ @]

\* the record of a request that reached its write of a topic record
TopicWrote(q, status, wrote) ==
    [NoLast EXCEPT !.found = TRUE, !.fields = ResponseFields(q.op, status),
                   !.op = q.op, !.who = q.who, !.subject = q.subject,
                   !.key = q.topic, !.passed = q.passed, !.status = status,
                   !.wrote = wrote, !.score = q.score,
                   !.tpre = PersistedTopic(students, q.who, <<q.subject, q.topic>>),
                   !.tpost = PersistedTopic(students', q.who, <<q.subject, q.topic>>)]

\* bodies of POST /student/complete-test: (passedLevel, score)
CompleteTestResults == {<<FALSE, 85>>, <<TRUE, 40>>}
TestModes == {"practice", "assessment"}

\* ------------------------------- POST /student/complete-test (current)
CompleteTestBegin(r) ==
    /\ UNCHANGED <<grade, adm>>
    /\ CanStart(r)
    /\ nreq' = nreq + 1
    /\ UNCHANGED <<students, last, muts, submitted>>
    /\ \E who \in Callers :
        \/ \* a required field is missing (400), or testResult.save() throws (500)
           UNCHANGED <<req, testHistory>>
        \/ \E subject \in SubjectInputs, mode \in TestModes, topicNumber \in Topics,
              res \in CompleteTestResults :
            LET passed == PassedOrScore(res[1], res[2])
                q == [NewReq("completeTest", who, subject, Len(testHistory) + 1,
                             res[1], res[2], NoClient) EXCEPT !.topic = topicNumber]
                doc == Lookup(students, who)
            IN  /\ testHistory' = Append(testHistory, AttemptRecord(q, passed))
                \* `if (mode === 'practice' && topicNumber)`, then `if (student)`
                /\ req' = [req EXCEPT ![r] = IF mode = "practice" /\ doc.found
                                             THEN [q EXCEPT !.pc = "loaded", !.doc = doc]
                                             ELSE IdleReq]

CompleteTestWrite(r) ==
    /\ UNCHANGED <<grade, adm>>
    /\ req[r].pc = "loaded"
    /\ req[r].op = "completeTest"
    /\ \E ok \in BOOLEAN :
        LET q == req[r]
            k == <<q.subject, q.topic>>
            rec == CompleteTestTopic(CurrentTopicData(q.doc.topicProgress, k), q.score)
            wrote == ok /\ q.who \in DOMAIN students
        IN  /\ students' = IF wrote THEN SetTopic(students, q.who, k, rec) ELSE students
            /\ submitted' = IF wrote
                            THEN [submitted EXCEPT ![<<q.who, k>>] = @ \cup {q.score}]
                            ELSE submitted
            /\ last' = TopicWrote(q, 201, wrote)
    /\ req' = [req EXCEPT ![r] = IdleReq]
    /\ UNCHANGED <<testHistory, muts, nreq>>

\* --------------------------------- POST /student/update-topic-progress
\* bodies of POST /student/update-topic-progress: (progress, completed)
UpdateTopicBodies == {<<40, FALSE>>, <<85, TRUE>>, <<40, TRUE>>}

UpdateTopicProgressBegin(r) ==
    /\ UNCHANGED <<grade, adm>>
    /\ CanStart(r)
    /\ nreq' = nreq + 1
    /\ UNCHANGED <<students, testHistory, muts, last, submitted>>
    /\ \E who \in Callers :
        \/ \* `if (!subject || !topicNumber)`: 400
           UNCHANGED req
        \/ \E subject \in SubjectInputs, topicNumber \in Topics,
              body \in UpdateTopicBodies :
            LET q == [NewReq("updateTopicProgress", who, subject, 0, FALSE,
                             body[1], NoClient)
                        EXCEPT !.topic = topicNumber, !.completed = body[2]]
                doc == Lookup(students, who)
            IN  \* no student: 404
                req' = [req EXCEPT ![r] = IF doc.found
                                          THEN [q EXCEPT !.pc = "loaded", !.doc = doc]
                                          ELSE IdleReq]

UpdateTopicProgressWrite(r) ==
    /\ UNCHANGED <<grade, adm>>
    /\ req[r].pc = "loaded"
    /\ req[r].op = "updateTopicProgress"
    /\ \E ok \in BOOLEAN :
        LET q == req[r]
            k == <<q.subject, q.topic>>
            rec == UpdateTopicProgressTopic(CurrentTopicData(q.doc.topicProgress, k),
                                            q.score, q.completed)
            wrote == ok /\ q.who \in DOMAIN students
        IN  /\ students' = IF wrote THEN SetTopic(students, q.who, k, rec) ELSE students
            /\ submitted' = IF wrote
                            THEN [submitted EXCEPT ![<<q.who, k>>] = @ \cup {q.score}]
                            ELSE submitted
            /\ last' = TopicWrote(q, IF wrote THEN 200 ELSE 500, wrote)
    /\ req' = [req EXCEPT ![r] = IdleReq]
    /\ UNCHANGED <<testHistory, muts, nreq>>

\* ------------------------------------------------------- admin requests
\* the `subjects` of an admin request body: none, or a map the admin typed
AdminSubjectInputs == {[k \in {"physics"} |-> Entry("0", "9")]}

\* POST /admin/students
AdminCreateStudent ==
    /\ UNCHANGED <<grade, adm>>
    /\ nreq < MaxReqs
    /\ nreq' = nreq + 1
    /\ \E s \in Students \ DOMAIN students :
       \E subjects \in AdminSubjectInputs \cup {DefaultSubjects} :
          students' = (s :> [subjects |-> subjects, topicProgress |-> EmptyMap])
                        @@ students
    /\ UNCHANGED <<testHistory, req, last, muts, submitted>>

\* PUT /admin/students/:id  (`student.subjects = subjects || student.subjects`)
AdminUpdateStudent ==
    /\ UNCHANGED <<grade, adm>>
    /\ nreq < MaxReqs
    /\ nreq' = nreq + 1
    /\ \E s \in DOMAIN students, subjects \in AdminSubjectInputs :
          students' = [students EXCEPT ![s].subjects = subjects]
    /\ UNCHANGED <<testHistory, req, last, muts, submitted>>

\* DELETE /admin/students/:id
AdminDeleteStudent ==
    /\ UNCHANGED <<grade, adm>>
    /\ nreq < MaxReqs
    /\ nreq' = nreq + 1
    /\ \E s \in DOMAIN students :
          /\ students' = [t \in DOMAIN students \ {s} |-> students[t]]
          \* the topic records go with the document
          /\ submitted' = [p \in DOMAIN submitted |->
                                IF p[1] = s THEN {} ELSE submitted[p]]
    /\ UNCHANGED <<testHistory, req, last, muts>>

AllIdle == \A r \in Slots : req[r].pc = "idle"

Next ==
    \/ \E r \in Slots :
        \/ TestHistoryBegin(r)
        \/ TestHistoryWrite(r)
        \/ LevelUpdateBegin(r)
        \/ LevelUpdateWrite(r)
        \/ UpdateLevelBegin(r)
        \/ UpdateLevelWrite(r)
        \/ CompleteTestLegacyBegin(r)
        \/ CompleteTestLegacyWrite(r)
        \/ CompleteTestBegin(r)
        \/ CompleteTestWrite(r)
        \/ UpdateTopicProgressBegin(r)
        \/ UpdateTopicProgressWrite(r)
    \/ AdminCreateStudent
    \/ AdminUpdateStudent
    \/ AdminDeleteStudent

\* requests interleave at their awaits
Spec == Init /\ [][Next]_vars

\* one request at a time: a request starts when no other is in flight
NextSeq == Next /\ (nreq' = nreq + 1 => AllIdle)
SpecSeq == Init /\ [][NextSeq]_vars

\* ------------------------------ grading and recording of one submission
storeVars == <<students, testHistory, req, last, muts, submitted, nreq, adm>>

\* truthiness of isCorrect
IsTrue(v) == v = "true"

\* `!subject || !questions || score === undefined || totalTime === undefined`
CompleteTestValid(b) ==
    /\ Truthy(b.subject)
    /\ b.hasQuestions
    /\ b.score.t # "undefined"
    /\ b.totalTime.t # "undefined"

\* `!subject || !stage || !level || !questions || score === undefined || ...`
TestHistoryValid(b) ==
    /\ Truthy(b.subject)
    /\ Truthy(b.stage)
    /\ b.hasQuestions
    /\ b.score.t # "undefined"
    /\ b.totalTime.t # "undefined"

\* the TestHistory schema casts score and totalTime to Number; save() throws
\* on a value that is no number
SchemaAccepts(b) == b.score.t = "number" /\ b.totalTime.t = "number"

\* Math.round((correct / total) * 100), for 0 <= correct <= total, total > 0
RoundPercent(correct, total) == (200 * correct + total) \div (2 * total)

\* questions.filter(q => q.isCorrect).length
CorrectCount(qs) == Cardinality({i \in 1..Len(qs) : IsTrue(qs[i].isCorrect)})

\* questions.filter(q => !q.isCorrect).length
IncorrectCount(qs) == Cardinality({i \in 1..Len(qs) : ~IsTrue(qs[i].isCorrect)})

\* topicWisePerformance: per topic of the list, total, correct and score
TopicWisePerformance(qs) ==
    [t \in {qs[i].topicNumber : i \in 1..Len(qs)} |->
        LET of == SelectSeq(qs, LAMBDA q : q.topicNumber = t)
            total == Len(of)
            correct == CorrectCount(of)
        IN  [total |-> total, correct |-> correct,
             score |-> IF total > 0 THEN RoundPercent(correct, total) ELSE 0]]

\* (mutant) a question with no isCorrect is counted as unanswered and as incorrect
PerformanceMetricsCountsTwice(qs) ==
    [correctAnswers |-> CorrectCount(qs),
     incorrectAnswers |-> IncorrectCount(qs),
     unanswered |-> Cardinality({i \in 1..Len(qs) : qs[i].isCorrect = Undefined}),
     topicWisePerformance |-> TopicWisePerformance(qs)]

\* performanceMetrics of POST /student/complete-test
PerformanceMetrics(qs) ==
    [correctAnswers |-> CorrectCount(qs),
     incorrectAnswers |-> IncorrectCount(qs),
     unanswered |-> Len(qs) - CorrectCount(qs) - IncorrectCount(qs),
     topicWisePerformance |-> TopicWisePerformance(qs)]

NoMetrics ==
    [correctAnswers |-> 0, incorrectAnswers |-> 0, unanswered |-> 0,
     topicWisePerformance |-> EmptyMap]

\* the TestHistory document of POST /student/complete-test
CompleteTestRecord(b) ==
    [op |-> "completeTest", score |-> b.score.v,
     passedLevel |-> PassedOrScore(b.passedLevel, b.score.v),
     questions |-> b.questions, hasMetrics |-> TRUE,
     performanceMetrics |-> PerformanceMetrics(b.questions)]

\* the TestHistory document of POST /student/test-history
TestHistoryRecord(b) ==
    [op |-> "testHistory", score |-> b.score.v, passedLevel |-> b.passedLevel,
     questions |-> b.questions, hasMetrics |-> FALSE,
     performanceMetrics |-> NoMetrics]

\* the handler up to the response: validation, the insert, and whether it
\* goes on to the Student document
Graded(status, record, saved, goesOn) ==
    [grade EXCEPT !.pc = "done", !.status = status,
                  !.log = IF saved THEN Append(@, record) ELSE @,
                  !.reachedStudent = saved /\ goesOn]

\* POST /student/complete-test: validation, metrics, testResult.save()
GradeCompleteTest ==
    /\ grade.pc = "new"
    /\ grade.op = "completeTest"
    /\ LET b == grade.body
       IN  grade' = IF ~CompleteTestValid(b)
                    THEN Graded(400, NoMetrics, FALSE, FALSE)
                    ELSE IF ~SchemaAccepts(b)
                    THEN Graded(500, NoMetrics, FALSE, FALSE)
                    ELSE Graded(201, CompleteTestRecord(b), TRUE, TRUE)
    /\ UNCHANGED storeVars

\* POST /student/test-history: validation, testResult.save()
GradeTestHistory ==
    /\ grade.pc = "new"
    /\ grade.op = "testHistory"
    /\ LET b == grade.body
       IN  grade' = IF ~TestHistoryValid(b)
                    THEN Graded(400, NoMetrics, FALSE, FALSE)
                    ELSE IF ~SchemaAccepts(b)
                    THEN Graded(500, NoMetrics, FALSE, FALSE)
                    ELSE Graded(201, TestHistoryRecord(b), TRUE, b.passedLevel)
    /\ UNCHANGED storeVars

\* processTestHistory: a score of zero is recomputed from the outcome list
ProcessTestHistory(test) ==
    IF test.score = 0 /\ Len(test.questions) > 0
    THEN [test EXCEPT !.score = RoundPercent(CorrectCount(test.questions),
                                              Len(test.questions))]
    ELSE test

\* (mutant) the recomputed records are written back to the collection
ReadAllTestHistoryWritesBack ==
    /\ grade.pc = "done"
    /\ grade' = [grade EXCEPT !.pc = "read",
                    !.view = [i \in 1..Len(grade.log) |-> ProcessTestHistory(grade.log[i])],
                    !.log = [i \in 1..Len(grade.log) |-> ProcessTestHistory(grade.log[i])]]
    /\ UNCHANGED storeVars

\* GET /student/all-test-history: the records returned, from lean copies
ReadAllTestHistory ==
    /\ grade.pc = "done"
    /\ grade' = [grade EXCEPT !.pc = "read",
                    !.view = [i \in 1..Len(grade.log) |-> ProcessTestHistory(grade.log[i])]]
    /\ UNCHANGED storeVars

\* PUT /admin/questions/:id on the question the submission answered
AdminUpdateQuestion ==
    /\ grade.pc # "none"
    /\ grade.bank = "Q"
    /\ grade' = [grade EXCEPT !.bank = "Q edited"]
    /\ UNCHANGED storeVars

\* DELETE /admin/questions/:id on the question the submission answered
AdminDeleteQuestion ==
    /\ grade.pc # "none"
    /\ grade.bank # "deleted"
    /\ grade' = [grade EXCEPT !.bank = "deleted"]
    /\ UNCHANGED storeVars

GradeOps == {"completeTest", "testHistory"}

InitGrade ==
    /\ students = [s \in Students |->
                      [subjects |-> DefaultSubjects, topicProgress |-> EmptyMap]]
    /\ testHistory = <<>>
    /\ req = [r \in Slots |-> IdleReq]
    /\ last = NoLast
    /\ muts = <<>>
    /\ submitted = [p \in Callers \X TopicKeys |-> {}]
    /\ nreq = 0
    /\ \E op \in GradeOps, b \in GradeBodies :
          grade = [NoGrade EXCEPT !.pc = "new", !.op = op, !.body = b]
    /\ adm = NoAdmin

GradeNext ==
    \/ GradeCompleteTest
    \/ GradeTestHistory
    \/ ReadAllTestHistory
    \/ AdminUpdateQuestion
    \/ AdminDeleteQuestion

\* one submission, its record and the reads of the history
SpecGrade == InitGrade /\ [][GradeNext]_vars

\* -------------------------------------------- the question banks (admin)
\* everything but the admin side
restVars == <<students, testHistory, req, last, muts, submitted, nreq, grade>>

\* the `options` arrays an admin sends: texts, with "" for an empty field
OptionLists == {<<"a", "b">>, <<"", "">>, <<"a", "b", "c", "d">>}

\* the `correctOption` values an admin sends
CorrectOptionInputs == {Absent, NotANumber, Num(0), Num(3), Num(4)}

\* the question part of a body: options (when sent) and correctOption; the
\* other required fields are present and valid
QuestionBodies ==
    [hasOptions : {TRUE}, options : OptionLists, correctOption : CorrectOptionInputs]
    \cup {[hasOptions |-> FALSE, options |-> <<>>, correctOption |-> Num(1)]}

\* `!option || option.trim() === ''`
IsEmptyOption(o) == o = ""

\* the document built from a body
QuestionDoc(b) == [options |-> b.options, correctOption |-> b.correctOption.v]

\* Question / GrammarQuestion schema on save(): every option is a required
\* String, correctOption casts to Number
QuestionSchemaAccepts(b) ==
    /\ b.correctOption.t = "number"
    /\ \A i \in 1..Len(b.options) : ~IsEmptyOption(b.options[i])

\* POST /admin/questions: the checks before `new Question`
CreateQuestionValid(b) ==
    /\ b.hasOptions
    /\ Len(b.options) >= 2
    /\ ~(\A i \in 1..Len(b.options) : IsEmptyOption(b.options[i]))
    /\ b.correctOption.t = "number"

\* POST /admin/questions/bulk: the checks on one question of the list
BulkQuestionValid(b) == b.hasOptions /\ b.correctOption.t # "undefined"

\* POST /admin/grammar-questions: the checks before `new GrammarQuestion`;
\* a comparison with a non-numeric string is false
CreateGrammarQuestionValid(b) ==
    /\ b.hasOptions
    /\ b.correctOption.t # "undefined"
    /\ Len(b.options) = 4
    /\ \A i \in 1..Len(b.options) : ~IsEmptyOption(b.options[i])
    /\ ~(b.correctOption.t = "number"
         /\ (b.correctOption.v < 0 \/ b.correctOption.v >= Len(b.options)))

\* POST /admin/grammar-questions/bulk: the checks on one question of the list
BulkGrammarQuestionValid(b) ==
    /\ b.hasOptions
    /\ Len(b.options) = 4
    /\ b.correctOption.t = "number"
    /\ ~(b.correctOption.v < 0 \/ b.correctOption.v > 3)
    /\ \A i \in 1..Len(b.options) : ~IsEmptyOption(b.options[i])

\* the bodies of an edit form: every field is sent and no option is empty
UpdateBodies ==
    {b \in QuestionBodies :
        b.hasOptions /\ b.correctOption.t # "undefined"
        /\ \A i \in 1..Len(b.options) : ~IsEmptyOption(b.options[i])}

\* the lists of a bulk upload
BulkLists == SeqsUpTo(QuestionBodies, MaxBank) \ {<<>>}

\* the documents of a list that save() accepts, in order
RECURSIVE SavedOf(_)
SavedOf(list) ==
    IF list = <<>> THEN <<>>
    ELSE (IF QuestionSchemaAccepts(Head(list)) THEN <<QuestionDoc(Head(list))>> ELSE <<>>)
         \o SavedOf(Tail(list))

\* POST /admin/questions
CreateQuestion ==
    /\ Len(adm.questions) < MaxBank
    /\ \E b \in QuestionBodies :
        adm' = IF ~CreateQuestionValid(b) THEN adm             \* 400
               ELSE IF ~QuestionSchemaAccepts(b) THEN adm  \* save() throws: 500
               ELSE [adm EXCEPT !.questions = Append(@, QuestionDoc(b))]
    /\ UNCHANGED restVars

\* POST /admin/questions/bulk: each question is saved on its own, the ones
\* save() refuses are reported
BulkUploadQuestions ==
    /\ \E list \in BulkLists :
        /\ Len(adm.questions) + Len(list) <= MaxBank
        /\ adm' = IF \E i \in 1..Len(list) : ~BulkQuestionValid(list[i])
                  THEN adm   \* 400, nothing is inserted
                  ELSE [adm EXCEPT !.questions = @ \o SavedOf(list)]
    /\ UNCHANGED restVars

\* PUT /admin/questions/:id: findByIdAndUpdate casts the body and runs no
\* validator
UpdateQuestion ==
    /\ \E b \in UpdateBodies :
        \/ \* no document with this id
           adm' = adm
        \/ \E i \in 1..Len(adm.questions) :
            adm' = IF b.correctOption.t # "number"
                   THEN adm   \* CastError: 500
                   ELSE [adm EXCEPT !.questions[i] = QuestionDoc(b)]
    /\ UNCHANGED restVars

\* POST /admin/grammar-questions (`correctOption: parseInt(correctOption)`)
CreateGrammarQuestion ==
    /\ Len(adm.grammarQuestions) < MaxBank
    /\ \E b \in QuestionBodies :
        adm' = IF ~CreateGrammarQuestionValid(b) THEN adm      \* 400
               ELSE IF ~QuestionSchemaAccepts(b) THEN adm  \* save() throws: 500
               ELSE [adm EXCEPT !.grammarQuestions = Append(@, QuestionDoc(b))]
    /\ UNCHANGED restVars

\* POST /admin/grammar-questions/bulk: insertMany of a list that passed
BulkUploadGrammarQuestions ==
    /\ \E list \in BulkLists :
        /\ Len(adm.grammarQuestions) + Len(list) <= MaxBank
        /\ adm' = IF \E i \in 1..Len(list) : ~BulkGrammarQuestionValid(list[i])
                  THEN adm   \* 400, nothing is inserted
                  ELSE [adm EXCEPT !.grammarQuestions = @ \o SavedOf(list)]
    /\ UNCHANGED restVars

\* PUT /admin/grammar-questions/:id: findByIdAndUpdate with runValidators
\* (type and required)
UpdateGrammarQuestion ==
    /\ \E b \in UpdateBodies :
        \/ adm' = adm
        \/ \E i \in 1..Len(adm.grammarQuestions) :
            adm' = IF b.correctOption.t # "number"
                   THEN adm   \* CastError: 500
                   ELSE [adm EXCEPT !.grammarQuestions[i] = QuestionDoc(b)]
    /\ UNCHANGED restVars

\* the option letters, in the order of the option fields
Letters == <<"A", "B", "C", "D">>

\* `['A', 'B', 'C', 'D'][q.correctOption]` of a stored (numeric) correctOption
LetterOf(c) == IF c \in 0..3 THEN Letters[c + 1] ELSE Undefined

\* GET /student/test (legacy): a stored question is served with its letter
ServeTest ==
    /\ \E i \in 1..Len(adm.questions) :
        adm' = [adm EXCEPT !.served = [has |-> TRUE,
                               index |-> adm.questions[i].correctOption,
                               letter |-> LetterOf(adm.questions[i].correctOption)]]
    /\ UNCHANGED restVars

\* the letters a student can select
AnswerLetters == {"A", "D"}

\* POST /student/complete-test, one entry of processedQuestions for the
\* question served: selectedOption, correctOption and isCorrect of the body
RecordAnswer ==
    /\ adm.served.has
    /\ \E sel \in AnswerLetters, isCorrect \in BOOLEAN :
        adm' = [adm EXCEPT !.answer = [has |-> TRUE, selectedOption |-> sel,
                               correctOption |-> adm.served.letter,
                               isCorrect |-> isCorrect,
                               index |-> adm.served.index]]
    /\ UNCHANGED restVars

InitBank ==
    /\ students = [s \in Students |->
                      [subjects |-> DefaultSubjects, topicProgress |-> EmptyMap]]
    /\ testHistory = <<>>
    /\ req = [r \in Slots |-> IdleReq]
    /\ last = NoLast
    /\ muts = <<>>
    /\ submitted = [p \in Callers \X TopicKeys |-> {}]
    /\ nreq = 0
    /\ grade = NoGrade
    /\ adm = NoAdmin

BankNext ==
    \/ CreateQuestion
    \/ BulkUploadQuestions
    \/ UpdateQuestion
    \/ CreateGrammarQuestion
    \/ BulkUploadGrammarQuestions
    \/ UpdateGrammarQuestion
    \/ ServeTest
    \/ RecordAnswer

\* the question banks under admin requests, and a question served and answered
SpecBank == InitBank /\ [][BankNext]_vars

\* ------------------------------------- accounts, tokens and reads (admin)
\* the Authorization headers followed: none, a token jwt.verify rejects, the
\* token of the student account uid1, the token of the admin account
Tokens == {"none", "invalid", "student", "admin"}
TokenRole(token) == IF token = "admin" THEN "admin" ELSE "student"
TokenUserId(token) == IF token = "admin" THEN "uid0" ELSE "uid1"

\* authenticateToken: 401 without a token, 403 when jwt.verify throws
AuthenticateToken(token) ==
    IF token = "none" THEN 401 ELSE IF token = "invalid" THEN 403 ELSE 0

\* (mutant) the role check lets every verified token through
AdminOnlyAnyRole(token) == 0

\* adminOnly (and `if (req.user.role !== 'admin')` of the legacy handlers)
AdminOnly(token) == IF TokenRole(token) # "admin" THEN 403 ELSE 0

\* studentOnly
StudentOnly(token) == IF TokenRole(token) # "student" THEN 403 ELSE 0

\* the middleware chain of an /admin route: the status it answers, or 0
AdminGate(token) ==
    IF AuthenticateToken(token) # 0 THEN AuthenticateToken(token) ELSE AdminOnly(token)

\* the middleware chain of a /student route
StudentGate(token) ==
    IF AuthenticateToken(token) # 0 THEN AuthenticateToken(token) ELSE StudentOnly(token)

DocIds == {1, 2}
StudentIdInputs == {"S1", "S2"}
UsernameInputs == {"u1", "u2", "admin"}

Resp(op, token, status) == [NoResp EXCEPT !.op = op, !.token = token, !.status = status]

\* Student.findOne({ <field>: v })
HasStudentId(docs, v) == \E d \in DOMAIN docs : docs[d].studentId = v
HasUsername(docs, v) == \E d \in DOMAIN docs : docs[d].username = v

\* POST /login: the account is found by name and role and the password compares
LoginAccepts(users, username, password, role) ==
    /\ username \in DOMAIN users
    /\ users[username].role = role
    /\ Compare(password, users[username].password)

\* a student-role User with this name exists
HasStudentUser(users, username) ==
    username \in DOMAIN users /\ users[username].role = "student"

AdminCanStart == adm.n < MaxAdminReqs

\* POST /admin/students: the middleware and the two findOne checks
CreateStudentBegin(r) ==
    /\ AdminCanStart
    /\ adm.creq[r].pc = "idle"
    /\ \A q \in Slots : adm.creq[q].pc = "idle" => r <= q
    /\ \E token \in Tokens, studentId \in StudentIdInputs, username \in UsernameInputs :
        adm' = IF AdminGate(token) # 0
               THEN [adm EXCEPT !.n = @ + 1,
                                !.resp = Resp("createStudent", token, AdminGate(token))]
               ELSE IF HasStudentId(adm.docs, studentId) \/ HasUsername(adm.docs, username)
               THEN [adm EXCEPT !.n = @ + 1,
                                !.resp = Resp("createStudent", token, 400)]
               ELSE [adm EXCEPT !.n = @ + 1,
                                !.resp = Resp("createStudent", token, 0),
                                !.creq[r] = [IdleCreate EXCEPT !.pc = "checked",
                                                !.studentId = studentId,
                                                !.username = username,
                                                !.password = "p1"]]
    /\ UNCHANGED restVars

\* `await newStudent.save()`: the unique index on studentId refuses a second
\* document with the id (500, catch)
CreateStudentSave(r) ==
    /\ adm.creq[r].pc = "checked"
    /\ LET q == adm.creq[r]
       IN  IF HasStudentId(adm.docs, q.studentId)
           THEN adm' = [adm EXCEPT !.creq[r] = IdleCreate,
                                   !.resp = Resp("createStudent", "admin", 500)]
           ELSE \E d \in DocIds \ DOMAIN adm.docs :
                  /\ \A e \in DocIds \ DOMAIN adm.docs : d <= e
                  /\ adm' = [adm EXCEPT
                        !.docs = (d :> [studentId |-> q.studentId,
                                        username |-> q.username,
                                        password |-> q.password]) @@ @,
                        !.creq[r] = [q EXCEPT !.pc = "saved", !.doc = d]]
    /\ UNCHANGED restVars

\* `bcrypt.hash` and `User.create`: the unique index on User.username refuses
\* a second account with the name (500, catch); the Student stays as saved
CreateStudentUser(r) ==
    /\ adm.creq[r].pc = "saved"
    /\ LET q == adm.creq[r]
           kept == q.doc \in DOMAIN adm.docs
       IN  adm' = IF q.username \in DOMAIN adm.users
                  THEN [adm EXCEPT !.creq[r] = IdleCreate,
                            !.resp = [Resp("createStudent", "admin", 500) EXCEPT
                                        !.saved = TRUE, !.kept = kept,
                                        !.userOk = HasStudentUser(adm.users, q.username)]]
                  ELSE [adm EXCEPT !.creq[r] = IdleCreate,
                            !.users = (q.username :> [password |-> Hash(q.password),
                                                      role |-> "student"]) @@ @,
                            !.resp = [Resp("createStudent", "admin", 201) EXCEPT
                                        !.saved = TRUE, !.kept = kept,
                                        !.userOk = TRUE]]
    /\ UNCHANGED restVars

\* the username and password of a PUT body: nothing, a new password, a new
\* name with a new password, the name alone, the name with an emptied password
StudentUpdateBodies ==
    {<<Undefined, Undefined>>, <<Undefined, "p2">>, <<"u2", "p2">>,
     <<"u1", Undefined>>, <<"u1", "">>}

\* `x || student.x`
OrElse(x, old) == IF Truthy(x) THEN x ELSE old

\* PUT /admin/students/:id
UpdateStudent ==
    /\ AdminCanStart
    /\ \E token \in Tokens, id \in DocIds, body \in StudentUpdateBodies :
        LET username == body[1]
            password == body[2]
            found == id \in DOMAIN adm.docs
            student == [adm.docs[id] EXCEPT !.username = OrElse(username, @),
                                            !.password = OrElse(password, @)]
            \* `if (password !== student.password)`, after the assignment
            changed == password # student.password
            hasUser == student.username \in DOMAIN adm.users
            \* bcrypt.hash(undefined, 10) throws
            throws == changed /\ hasUser /\ password = Undefined
            users == IF changed /\ hasUser /\ ~throws
                     THEN [adm.users EXCEPT ![student.username].password = Hash(password)]
                     ELSE adm.users
        IN  adm' = IF AdminGate(token) # 0
                   THEN [adm EXCEPT !.n = @ + 1,
                                    !.resp = Resp("updateStudent", token, AdminGate(token))]
                   ELSE IF ~found
                   THEN [adm EXCEPT !.n = @ + 1,
                                    !.resp = Resp("updateStudent", token, 404)]
                   ELSE [adm EXCEPT !.n = @ + 1,
                            !.docs[id] = student,
                            !.users = users,
                            !.resp = [Resp("updateStudent", token,
                                           IF throws THEN 500 ELSE 200) EXCEPT
                                !.password = password,
                                !.saved = TRUE,
                                !.hadUser = HasStudentUser(adm.users, student.username),
                                !.differs = password # adm.docs[id].password,
                                !.loginOk = LoginAccepts(users, student.username,
                                                         password, "student"),
                                !.credKept = hasUser /\ users[student.username]
                                                        = adm.users[student.username]]]
    /\ UNCHANGED restVars

\* DELETE /admin/students/:id: the Student, then the User of its username
DeleteStudent ==
    /\ AdminCanStart
    /\ \E token \in Tokens, id \in DocIds :
        adm' = IF AdminGate(token) # 0
               THEN [adm EXCEPT !.n = @ + 1,
                                !.resp = Resp("deleteStudent", token, AdminGate(token))]
               ELSE IF id \notin DOMAIN adm.docs
               THEN [adm EXCEPT !.n = @ + 1,
                                !.resp = Resp("deleteStudent", token, 404)]
               ELSE [adm EXCEPT !.n = @ + 1,
                        !.docs = [d \in DOMAIN adm.docs \ {id} |-> adm.docs[d]],
                        !.users = [u \in DOMAIN adm.users \ {adm.docs[id].username}
                                        |-> adm.users[u]],
                        !.resp = Resp("deleteStudent", token, 200)]
    /\ UNCHANGED restVars

\* DELETE /admin/questions/:id
DeleteQuestion ==
    /\ AdminCanStart
    /\ \E token \in Tokens, i \in 1..2 :
        adm' = IF AdminGate(token) # 0
               THEN [adm EXCEPT !.n = @ + 1,
                                !.resp = Resp("deleteQuestion", token, AdminGate(token))]
               ELSE IF i > Len(adm.questions)
               THEN [adm EXCEPT !.n = @ + 1,
                                !.resp = Resp("deleteQuestion", token, 404)]
               ELSE [adm EXCEPT !.n = @ + 1,
                        !.questions = SubSeq(@, 1, i - 1) \o SubSeq(@, i + 1, Len(@)),
                        !.resp = Resp("deleteQuestion", token, 200)]
    /\ UNCHANGED restVars

\* the studentId of the attempts a read returns
OwnersOf(attempts, ids) == {attempts[i].studentId : i \in ids}

\* GET /student/all-test-history:
\* `req.query.studentId || req.user.userId`, then TestHistory.find({ studentId })
GetAllTestHistory ==
    /\ AdminCanStart
    /\ \E token \in Tokens, query \in {Undefined, "uid1", "uid2"} :
        LET studentId == OrElse(query, TokenUserId(token))
            found == {i \in 1..Len(adm.attempts) : adm.attempts[i].studentId = studentId}
        IN  adm' = IF StudentGate(token) # 0
                   THEN [adm EXCEPT !.n = @ + 1,
                            !.resp = Resp("allTestHistory", token, StudentGate(token))]
                   ELSE [adm EXCEPT !.n = @ + 1,
                            !.resp = [Resp("allTestHistory", token, 200) EXCEPT
                                        !.returned = OwnersOf(adm.attempts, found)]]
    /\ UNCHANGED restVars

\* GET /student/test-history/:testId: TestHistory.findById(testId)
GetTestHistoryById ==
    /\ AdminCanStart
    /\ \E token \in Tokens, testId \in 1..3 :
        adm' = IF StudentGate(token) # 0
               THEN [adm EXCEPT !.n = @ + 1,
                        !.resp = Resp("testHistoryById", token, StudentGate(token))]
               ELSE IF testId > Len(adm.attempts)
               THEN [adm EXCEPT !.n = @ + 1,
                        !.resp = Resp("testHistoryById", token, 404)]
               ELSE [adm EXCEPT !.n = @ + 1,
                        !.resp = [Resp("testHistoryById", token, 200) EXCEPT
                                    !.returned = OwnersOf(adm.attempts, {testId})]]
    /\ UNCHANGED restVars

\* one question is in the bank and the students uid1 and uid2 have one
\* recorded attempt each
InitAccess ==
    /\ students = [s \in Students |->
                      [subjects |-> DefaultSubjects, topicProgress |-> EmptyMap]]
    /\ testHistory = <<>>
    /\ req = [r \in Slots |-> IdleReq]
    /\ last = NoLast
    /\ muts = <<>>
    /\ submitted = [p \in Callers \X TopicKeys |-> {}]
    /\ nreq = 0
    /\ grade = NoGrade
    /\ adm = [NoAdmin EXCEPT
                !.questions = <<[options |-> <<"a", "b">>, correctOption |-> 0]>>,
                !.attempts = <<[studentId |-> "uid1"], [studentId |-> "uid2"]>>]

AccessNext ==
    \/ \E r \in Slots :
        \/ CreateStudentBegin(r)
        \/ CreateStudentSave(r)
        \/ CreateStudentUser(r)
    \/ UpdateStudent
    \/ DeleteStudent
    \/ DeleteQuestion
    \/ GetAllTestHistory
    \/ GetTestHistoryById

\* admin requests on the accounts and student reads of the history, with the
\* token each request carries; creates interleave at their awaits
SpecAccess == InitAccess /\ [][AccessNext]_vars

\* =================================================================== claims
ProgressionOps == {"testHistory", "levelUpdate", "updateLevel", "completeTestLegacy"}
PassOps == {"testHistory", "levelUpdate"}

S1Physics == Persisted(students, "s1", "physics")

\* C1: a passing result applied by POST /student/test-history or POST
\* /student/test-completion-level-update to a subject whose persisted entry
\* was read as (stage s, level l), l in 1..4, persists (s, l+1) when l < 4
\* and (s+1, 1) when l = 4.
C1_PassTransition ==
    (/\ last.op \in PassOps
     /\ last.wrote
     /\ last.read.has
     /\ ParseInt(last.read.level) \in 1..4
     /\ Ge(ParseInt(last.read.stage), 1))
    => LET s == ParseInt(last.read.stage)
           l == ParseInt(last.read.level)
       IN  /\ last.post.has
           /\ IF l < 4
              THEN ParseInt(last.post.stage) = s /\ ParseInt(last.post.level) = l + 1
              ELSE ParseInt(last.post.stage) = s + 1 /\ ParseInt(last.post.level) = 1

\* (1,4) was read by POST /student/test-completion-level-update and (2,1) is
\* persisted
C1_Witness ==
    /\ last.op = "levelUpdate"
    /\ last.wrote
    /\ last.read = [has |-> TRUE, stage |-> "1", level |-> "4"]
    /\ last.post = [has |-> TRUE, stage |-> "2", level |-> "1"]

\* the passing writes of test-history / level-update applied for (who, key)
PassesApplied(who, key) ==
    Cardinality({i \in 1..Len(muts) :
        muts[i].who = who /\ muts[i].key = key /\ muts[i].op \in PassOps})

\* C2: two concurrent passing submissions of s1 for physics, both applied and
\* starting from level 2, end in level 4 under every interleaving.  (s1's
\* physics entry starts at (1,2) or (1,4); when the two passes are the only
\* requests and the stage is still 1, the start was (1,2).)
C2_TwoPassesReachLevel4 ==
    (/\ nreq = 2
     /\ AllIdle
     /\ Len(muts) = 2
     /\ PassesApplied("s1", "physics") = 2
     /\ S1Physics.stage = "1")
    => S1Physics.level = "4"

\* C3: the level mutation is applied at most once for each recorded attempt.
C3_OncePerAttempt ==
    \A i \in 1..Len(testHistory) :
        Cardinality({j \in 1..Len(muts) : muts[j].testId = i}) <= 1

\* C4: every persisted subject entry has its level in 1..4 and its stage >= 1.
C4_LevelInRange ==
    \A s \in DOMAIN students :
        \A k \in DOMAIN students[s].subjects :
            /\ ParseInt(students[s].subjects[k].level) \in 1..4
            /\ Ge(ParseInt(students[s].subjects[k].stage), 1)

\* C5: the entry a progression update persists does not depend on the
\* progression values of the request body: over all bodies that differ only
\* in them, the update leaves one and the same entry.
C5_ClientIndependent ==
    (last.wrote /\ last.op \in ProgressionOps) => Cardinality(last.alts) = 1

\* the subjects map of every student
SubjectsOf(db) == [s \in DOMAIN db |-> db[s].subjects]

\* the body of request `q` says the attempt failed
FailingBody(q) ==
    \/ q.op = "testHistory" /\ ~q.passed
    \/ q.op = "completeTestLegacy" /\ ~q.passed /\ q.score < PassMark

\* C6: no step of a request whose attempt is submitted as failed (test-history
\* with passedLevel false; legacy complete-test with passedLevel false and
\* score < 70) changes the (stage, level) of any subject.
C6_FailedAttemptNoChange ==
    [][/\ \A r \in Slots :
            (req'[r] # req[r] /\ (FailingBody(req[r]) \/ FailingBody(req'[r])))
                => SubjectsOf(students') = SubjectsOf(students)
       /\ (/\ Len(testHistory') = Len(testHistory) + 1
           /\ ~testHistory'[Len(testHistory')].passedLevel)
                => SubjectsOf(students') = SubjectsOf(students)]_vars

\* a failed attempt has been recorded and its request is over
C6_Witness ==
    /\ nreq = 1
    /\ AllIdle
    /\ Len(testHistory) = 1
    /\ ~testHistory[1].passedLevel
    /\ testHistory[1].studentId = "s1"

\* C7: a progression handler changes a subject entry only when a passing
\* attempt of that student for that subject has been recorded before.
C7_ChangeFollowsPassedAttempt ==
    (last.wrote /\ last.op \in ProgressionOps /\ last.pre # last.post) => last.hadPass

\* C8: a passing result applied to a subject that the record read does not
\* hold persists (stage 1, level 2).
C8_MissingSubjectStartsAtOne ==
    (last.op \in PassOps /\ last.wrote /\ ~last.read.has)
    => last.post = [has |-> TRUE, stage |-> "1", level |-> "2"]

\* the level update met no chemistry entry and persisted (1,2)
C8_Witness ==
    /\ last.op = "levelUpdate"
    /\ last.wrote
    /\ last.key = "chemistry"
    /\ ~last.read.has
    /\ ~last.pre.has
    /\ last.post = [has |-> TRUE, stage |-> "1", level |-> "2"]

\* request r takes its write step and it is a progression update
ProgressionWrite(r) ==
    /\ req[r].pc = "loaded"
    /\ req'[r].pc = "idle"
    /\ req[r].op \in ProgressionOps

\* C9: the write of a progression update for subject X of student S leaves
\* the entry of every other subject of S and every entry of every other
\* student as it was (the two spellings of X, "x" and "X", are one subject).
C9_OnlyTargetSubject ==
    [][\A r \in Slots : ProgressionWrite(r) =>
          \A s \in Students, k \in Keys :
              (s # req[r].who \/ ToLowerCase(k) # ToLowerCase(req[r].subject))
                  => Persisted(students', s, k) = Persisted(students, s, k)]_vars

\* a progression update wrote s1's chemistry while s1 holds a physics entry
\* and s2 holds its entries
C9_Witness ==
    /\ last.op \in ProgressionOps
    /\ last.wrote
    /\ last.who = "s1"
    /\ last.key = "chemistry"
    /\ last.pre # last.post
    /\ Persisted(students, "s1", "physics").has
    /\ Persisted(students, "s2", "chemistry").has

MaxOf(S) == CHOOSE m \in S : \A x \in S : x <= m

StoredBest(who, k) ==
    IF who \in DOMAIN students /\ k \in DOMAIN students[who].topicProgress
    THEN students[who].topicProgress[k].progress
    ELSE 0

TopicOps == {"completeTest", "updateTopicProgress"}

TopicsOf(db) == [s \in DOMAIN db |-> db[s].topicProgress]

\* request r takes a step (it starts, or it takes its write step)
StepOf(r) == req'[r] # req[r]

\* C13: no step of POST /student/complete-test (current) or POST
\* /student/update-topic-progress changes a subject's (stage, level), and no
\* step of POST /student/test-history or POST
\* /student/test-completion-level-update changes a topic-progress record.
C13_TopicAndLevelIndependent ==
    [][\A r \in Slots : StepOf(r) =>
          /\ (req[r].op \in TopicOps \/ req'[r].op \in TopicOps)
                => SubjectsOf(students') = SubjectsOf(students)
          /\ (req[r].op \in PassOps \/ req'[r].op \in PassOps)
                => TopicsOf(students') = TopicsOf(students)]_vars

\* a practice submission wrote a topic record of s1, who holds a subject entry
\* and whose topic record changed
C13_Witness ==
    /\ last.op = "completeTest"
    /\ last.wrote
    /\ last.tpre # last.tpost
    /\ Persisted(students, "s1", "physics").has

\* the submission has been answered
Answered == grade.pc \in {"done", "read"}

\* C14: for every non-empty outcome list recorded by POST
\* /student/complete-test, correctAnswers + incorrectAnswers + unanswered is
\* the number of outcomes and each of the three counts is >= 0.
C14_MetricsSumToTotal ==
    \A i \in 1..Len(grade.log) :
        LET rec == grade.log[i]
            m == rec.performanceMetrics
        IN  (rec.hasMetrics /\ Len(rec.questions) > 0)
            => /\ m.correctAnswers + m.incorrectAnswers + m.unanswered = Len(rec.questions)
               /\ m.correctAnswers >= 0
               /\ m.incorrectAnswers >= 0
               /\ m.unanswered >= 0

\* a recorded list of three outcomes: one correct, one incorrect, one with no
\* isCorrect
C14_Witness ==
    /\ Len(grade.log) = 1
    /\ grade.log[1].hasMetrics
    /\ Len(grade.log[1].questions) = 3
    /\ grade.log[1].performanceMetrics.correctAnswers = 1
    /\ \E i \in 1..3 : grade.log[1].questions[i].isCorrect = Undefined
    /\ \E i \in 1..3 : grade.log[1].questions[i].isCorrect = "false"

\* p is 100 * correct / total rounded to the nearest integer, halves up
NearestPercent(p, correct, total) ==
    /\ 2 * p * total <= 200 * correct + total
    /\ 200 * correct + total < 2 * p * total + 2 * total

\* C15: every percentage the server derives from an outcome list (the
\* per-topic score of a recorded complete-test; the score returned by the
\* history read for a stored score of zero) is round(100 * correct / total);
\* for an empty list the returned percentage is 0 and passed is false.
C15_PercentageRounded ==
    /\ \A i \in 1..Len(grade.log) :
          LET twp == grade.log[i].performanceMetrics.topicWisePerformance
          IN  \A t \in DOMAIN twp :
                  NearestPercent(twp[t].score, twp[t].correct, twp[t].total)
    /\ grade.pc = "read" =>
          \A i \in 1..Len(grade.log) :
              LET rec == grade.log[i]
                  total == Len(rec.questions)
              IN  rec.score = 0 =>
                     IF total > 0
                     THEN NearestPercent(grade.view[i].score,
                                         CorrectCount(rec.questions), total)
                     ELSE grade.view[i].score = 0 /\ ~grade.view[i].passedLevel

\* C16: the pass flag stored with a recorded attempt is true exactly when
\* the attempt's score is >= 70.
C16_PassFlagIsThreshold ==
    \A i \in 1..Len(testHistory) :
        testHistory[i].passedLevel <=> (testHistory[i].score >= PassMark)

\* the body is malformed: an empty answer list, a non-numeric score, or a
\* missing subject, questions, score or totalTime
Malformed(b) ==
    \/ ~Truthy(b.subject)
    \/ ~b.hasQuestions
    \/ Len(b.questions) = 0
    \/ b.score.t # "number"
    \/ b.totalTime.t = "undefined"

\* C19: a malformed submission to POST /student/complete-test or POST
\* /student/test-history is answered with an error, creates no attempt
\* record and does not reach the student record.
C19_MalformedRejected ==
    (Answered /\ Malformed(grade.body))
    => /\ grade.status >= 400
       /\ grade.log = <<>>
       /\ ~grade.reachedStudent

\* every record of log `a` is in log `b` at its place, as it was
KeptIn(a, b) == Len(b) >= Len(a) /\ \A i \in 1..Len(a) : b[i] = a[i]

\* C20: no step removes or changes a record of the attempt log: not a
\* submission, not a history read that recomputes a score, not an edit or a
\* deletion of a Question.
C20_LogAppendOnly ==
    [][KeptIn(testHistory, testHistory') /\ KeptIn(grade.log, grade'.log)]_vars

\* the history read returned a recomputed score, the question was deleted,
\* and the stored record still has the score and the snapshot it was
\* created with
C20_Witness ==
    /\ grade.pc = "read"
    /\ grade.bank = "deleted"
    /\ Len(grade.log) = 1
    /\ grade.log[1].score = 0
    /\ grade.view[1].score = 50
    /\ Len(grade.log[1].questions) = 2
    /\ grade.log[1].questions[1].text = "Q"

\* the response of `op` when its write of the Student document succeeded
SuccessResponse(op) ==
    LET status == IF op \in {"levelUpdate", "updateLevel", "updateTopicProgress"}
                  THEN 200 ELSE 201
    IN  [status |-> status, fields |-> ResponseFields(op, status)]

\* C17: when the write of the Student document fails after the attempt has
\* been recorded (test-history, complete-test), the result is still returned
\* (201) and the response differs from the one of a successful write: it
\* flags that progression was not applied.
C17_FailedWriteIsFlagged ==
    (last.op \in {"testHistory", "completeTest"} /\ last.found /\ ~last.wrote)
    => /\ last.status = 201
       /\ [status |-> last.status, fields |-> last.fields] # SuccessResponse(last.op)

LowerKeys == {k \in Keys : ToLowerCase(k) = k}

C27_PointsNeverDecrease ==
    (last.op \in PassOps /\ last.wrote /\ last.npre # NaN /\ last.npost # NaN)
    => last.npost >= last.npre

\* the stored questions of both collections
StoredQuestions ==
    {adm.questions[i] : i \in 1..Len(adm.questions)}
    \cup {adm.grammarQuestions[i] : i \in 1..Len(adm.grammarQuestions)}

\* C21: every stored Question and GrammarQuestion has a correctOption that
\* indexes into its options: 0 <= correctOption < number of options.
C21_CorrectOptionIndexesOptions ==
    \A q \in StoredQuestions :
        0 <= q.correctOption /\ q.correctOption < Len(q.options)

\* C23: the letter served for a question whose stored correct index is i in
\* 0..3 is the i-th of A, B, C, D, and an answer to it is recorded as correct
\* exactly when the selected letter is that letter.
C23_LetterIsIndex ==
    /\ (adm.served.has /\ adm.served.index \in 0..3)
       => adm.served.letter = Letters[adm.served.index + 1]
    /\ (adm.answer.has /\ adm.answer.index \in 0..3)
       => (adm.answer.isCorrect
           <=> adm.answer.selectedOption = Letters[adm.answer.index + 1])

\* +4 per correct and -1 per incorrect answer, and its share of 4 per question
NegativeMarkScore(qs) == 4 * CorrectCount(qs) - IncorrectCount(qs)
NegativeMarkPercent(qs) ==
    IF NegativeMarkScore(qs) >= 0 /\ Len(qs) > 0
    THEN RoundPercent(NegativeMarkScore(qs), 4 * Len(qs))
    ELSE 0

\* C24: a submission that selects the negative-marking mode is recorded with
\* the score 4 * correct - incorrect (raw, or normalised against 4 * total).
C24_NegativeMarking ==
    (/\ Answered
     /\ grade.status = 201
     /\ grade.body.scoringMode = "negative-marking"
     /\ Len(grade.log) > 0)
    => LET qs == grade.log[1].questions
       IN  grade.log[1].score \in {NegativeMarkScore(qs), NegativeMarkPercent(qs)}

\* C22: no two Student records hold the same login name.
C22_UsernamesUnique ==
    \A d \in DOMAIN adm.docs : \A e \in DOMAIN adm.docs :
        d # e => adm.docs[d].username # adm.docs[e].username

\* C28: POST /admin/students is all-or-nothing: when it answers with an error
\* no Student saved by the request is in the collection, and when it answers
\* 201 the Student and a student-role User of its username both exist.
C28_CreateAllOrNothing ==
    (adm.resp.op = "createStudent" /\ adm.resp.status # 0)
    => IF adm.resp.status = 201
       THEN adm.resp.kept /\ adm.resp.userOk
       ELSE ~(adm.resp.saved /\ adm.resp.kept)

\* C29: for a Student whose User account exists, a PUT /admin/students/:id
\* that succeeds with a password different from the current one leaves the
\* account accepting the new password at login, and a PUT without a password
\* succeeds and leaves the account's credential as it was.
C29_PasswordPropagates ==
    (adm.resp.op = "updateStudent" /\ adm.resp.saved /\ adm.resp.hadUser)
    => /\ (Truthy(adm.resp.password) /\ adm.resp.differs /\ adm.resp.status = 200)
          => adm.resp.loginOk
       /\ adm.resp.password = Undefined
          => (adm.resp.status = 200 /\ adm.resp.credKept)

\* C26: a history read answered to a student returns attempts of that
\* student only.
C26_OwnAttemptsOnly ==
    (adm.resp.op \in {"allTestHistory", "testHistoryById"} /\ adm.resp.status = 200)
    => adm.resp.returned \subseteq {TokenUserId(adm.resp.token)}

\* the persisted collections
Collections ==
    <<adm.docs, adm.users, adm.questions, adm.grammarQuestions, adm.attempts>>

AdminOps == {"createStudent", "updateStudent", "deleteStudent", "deleteQuestion"}

\* C30: an /admin request that carries no valid admin token is answered 401
\* (no token) or 403 (token rejected, or not an admin's) and changes no
\* persisted record.
C30_AdminNeedsAdminToken ==
    [][(/\ adm'.n = adm.n + 1
        /\ adm'.resp.op \in AdminOps
        /\ adm'.resp.token # "admin")
       => /\ adm'.resp.status = IF adm'.resp.token = "none" THEN 401 ELSE 403
          /\ Collections' = Collections
          /\ adm'.creq = adm.creq]_vars

\* DELETE /admin/questions/:id answered 403 to a student's token and the
\* question is still in the bank
C30_Witness ==
    /\ adm.resp.op = "deleteQuestion"
    /\ adm.resp.token = "student"
    /\ adm.resp.status = 403
    /\ Len(adm.questions) = 1

====
